---- MODULE Spec2Model ----
(***************************************************************************)
(* A model of the full-text search engine of search_engine/engine:         *)
(* Indexer (indexer.py), Searcher (searcher.py) and IndexStorage           *)
(* (storage.py).                                                           *)
(*                                                                         *)
(* Texts are sequences of lexemes (the words and punctuation marks of a    *)
(* string, in order); a string is identified with its lexeme sequence.     *)
(* Term frequencies are exact fixed-point numbers in units of 1/TfScale,   *)
(* logarithms are in units of 10^-6, so a score is an integer in units of  *)
(* 10^-6/TfScale; for the document counts reached here two scores compare  *)
(* as the reals they stand for.  The order in which a set of doc ids is    *)
(* iterated depends on the string hashes of the process: hash_order.       *)
(*                                                                         *)
(* Spec runs whole calls one after the other.  SpecFaults adds writes that *)
(* raise, crashes of the process and restarts.  SpecSearchDuringIndex and  *)
(* SpecTwoIndexers run calls on request threads, statement by statement.   *)
(* SpecRequests runs the request handlers of views.py, which change the    *)
(* result lists in place.                                                  *)
(***************************************************************************)
EXTENDS Integers, Sequences, FiniteSets, TLC

VARIABLES
    document_store,      \* Indexer.document_store: doc id -> document record
    inverted_index,      \* Indexer.inverted_index: term -> postings, in insertion order
    term_document_freq,  \* Indexer.term_document_freq: term -> int
    total_documents,     \* Indexer.total_documents
    phrase_cache,        \* Indexer.phrase_cache: <<text, field>> -> result list
    storage,             \* the files of IndexStorage
    hash_order,          \* the iteration order of a set of doc ids in this process
    last,                \* the last call made and what it returned
    faults,              \* the number of calls a failed write or a crash has ended
    threads              \* the calls in progress on the request threads

vars == <<document_store, inverted_index, term_document_freq, total_documents,
          phrase_cache, storage, hash_order, last, faults, threads>>

-----------------------------------------------------------------------------
(* Bounds and inputs *)

\* The number of index_document calls in a run.
MaxIngests == 2

\* The number of entries the phrase cache may hold in a run.
MaxCache == 1

DocIds == {"1", "2"}

Quote == "\""

\* The field argument of search: None, 'title' or 'data'.
Fields == {"None", "title", "data"}

\* The title and data texts documents are made of.
Contents ==
    { [title |-> <<"Cats", "and", "Dogs">>, data |-> <<"Cats", "are", "great", "pets">>],
      [title |-> <<"Birds">>,               data |-> <<"Dogs", "are", "loyal">>],
      [title |-> <<"x">>,                   data |-> <<"loyal", ",", "dogs">>] }

Documents == { [id |-> i, title |-> c.title, data |-> c.data] : i \in DocIds, c \in Contents }

Queries ==
    { <<>>,
      <<"dogs">>,
      <<"loyal", "dogs">>,
      <<Quote, "loyal", "dogs", Quote>>,
      <<Quote, "loyal", "dogs", Quote, "dogs">> }

-----------------------------------------------------------------------------
(* Generic helpers *)

EmptyMap == [x \in {} |-> 0]

Range(s) == { s[i] : i \in 1..Len(s) }

Put(f, k, v) == [x \in DOMAIN f \cup {k} |-> IF x = k THEN v ELSE f[x]]

Max(a, b) == IF a >= b THEN a ELSE b

RECURSIVE Gcd(_, _)
Gcd(a, b) == IF b = 0 THEN a ELSE Gcd(b, a % b)

RECURSIVE LcmUpTo(_)
LcmUpTo(n) == IF n <= 1 THEN 1 ELSE LET l == LcmUpTo(n - 1) IN (l * n) \div Gcd(l, n)

\* All orders in which the members of a set can be listed.
RECURSIVE Orders(_)
Orders(S) == IF S = {} THEN { <<>> }
             ELSE UNION { { <<x>> \o o : o \in Orders(S \ {x}) } : x \in S }

-----------------------------------------------------------------------------
(* Indexer._preprocess_text *)

\* str.lower on a lexeme.
Lower(w) == CASE w = "Cats"  -> "cats"
              [] w = "Dogs"  -> "dogs"
              [] w = "Birds" -> "birds"
              [] OTHER       -> w

\* The lexemes that are characters of string.punctuation.
Punctuation == {Quote, ","}

\* The lexemes that are in stopwords.words('english').
StopWords == {"and", "are"}

\* The lexemes of length 1.
SingleChar == {"x", ","} \cup {Quote}

preprocess_text(text) ==
    LET lowered == [i \in 1..Len(text) |-> Lower(text[i])]
        NotPunctuation(w) == w \notin Punctuation
        tokens == SelectSeq(lowered, NotPunctuation)
        Kept(token) == token \notin StopWords /\ token \notin SingleChar
    IN SelectSeq(tokens, Kept)

\* The longest token sequence a field of a document has.
MaxFieldTokens ==
    LET lens == { Len(preprocess_text(c.title)) : c \in Contents }
                \cup { Len(preprocess_text(c.data)) : c \in Contents }
    IN CHOOSE n \in lens : \A m \in lens : m <= n

\* The unit of a term frequency is 1/TfScale: every count/length is a multiple.
TfScale == LcmUpTo(MaxFieldTokens)

-----------------------------------------------------------------------------
(* Indexer: term frequency, inverse document frequency, document vector *)

calculate_tf(term_freq, total_terms) ==
    IF total_terms > 0 THEN (term_freq * TfScale) \div total_terms ELSE 0

\* 10^6 * ln(p), rounded, for a prime p.
LnPrime(p) == CASE p = 2 -> 693147
                [] p = 3 -> 1098612
                [] p = 5 -> 1609438
                [] p = 7 -> 1945910

\* 10^6 * ln(n) for n in 1..10, additive over the prime factors of n.
RECURSIVE LnMicro(_)
LnMicro(n) ==
    IF n = 1 THEN 0
    ELSE LET p == CHOOSE q \in {2, 3, 5, 7} : n % q = 0
         IN LnPrime(p) + LnMicro(n \div p)

\* math.log(total / freq)
LogRatio(total, freq) == LnMicro(total) - LnMicro(freq)

calculate_idf_smoothed(term) ==
    IF term \notin DOMAIN term_document_freq \/ total_documents = 0
    THEN 0
    ELSE LogRatio(total_documents + 1, term_document_freq[term])

calculate_idf(term) ==
    IF term \notin DOMAIN term_document_freq \/ total_documents = 0
    THEN 0
    ELSE LogRatio(total_documents, term_document_freq[term])

\* Counter(tokens)[term]
Count(tokens, term) == Cardinality({ i \in 1..Len(tokens) : tokens[i] = term })

build_document_vector(tokens) ==
    [term \in Range(tokens) |-> calculate_tf(Count(tokens, term), Len(tokens))]

-----------------------------------------------------------------------------
(* Indexer.index_document *)

\* A posting list is the dict inverted_index[term]: its entries in insertion order.
PostingIndex(postings, doc_id) ==
    CHOOSE i \in 1..Len(postings) : postings[i].id = doc_id

HasPosting(index, term, doc_id) ==
    /\ term \in DOMAIN index
    /\ \E i \in 1..Len(index[term]) : index[term][i].id = doc_id

PostingsOf(index, term) == IF term \in DOMAIN index THEN index[term] ELSE <<>>

\* d[doc_id] = entry on a dict: an existing key keeps its place, a new one goes last.
SetPosting(postings, doc_id, entry) ==
    IF \E i \in 1..Len(postings) : postings[i].id = doc_id
    THEN [postings EXCEPT ![PostingIndex(postings, doc_id)] = entry]
    ELSE Append(postings, entry)

\* The loop over title_vector.items().
IndexTitleTerms(index, doc_id, title_vector) ==
    [term \in DOMAIN index \cup DOMAIN title_vector |->
        IF term \in DOMAIN title_vector
        THEN SetPosting(PostingsOf(index, term), doc_id,
                        [id |-> doc_id, title_tf |-> title_vector[term], data_tf |-> 0])
        ELSE index[term]]

\* The loop over data_vector.items().
IndexDataTerms(index, doc_id, data_vector) ==
    [term \in DOMAIN index \cup DOMAIN data_vector |->
        IF term \in DOMAIN data_vector
        THEN IF HasPosting(index, term, doc_id)
             THEN LET i == PostingIndex(index[term], doc_id)
                  IN [index[term] EXCEPT ![i].data_tf = data_vector[term]]
             ELSE SetPosting(PostingsOf(index, term), doc_id,
                             [id |-> doc_id, title_tf |-> 0, data_tf |-> data_vector[term]])
        ELSE index[term]]

\* The loop over updated_terms: term_document_freq[term] += 1 on a defaultdict(int).
UpdateDocumentFreq(freq, updated_terms) ==
    [term \in DOMAIN freq \cup updated_terms |->
        IF term \in updated_terms
        THEN (IF term \in DOMAIN freq THEN freq[term] ELSE 0) + 1
        ELSE freq[term]]

\* self.total_documents += 1
IncrementTotal(total) == total + 1

ClearPhraseCacheSkipped == phrase_cache

\* self.phrase_cache = {}
ClearPhraseCache == EmptyMap

DocRecord(document) ==
    [id           |-> document.id,
     title        |-> document.title,
     data         |-> document.data,
     title_tokens |-> preprocess_text(document.title),
     data_tokens  |-> preprocess_text(document.data)]

-----------------------------------------------------------------------------
(* IndexStorage: the files under index_dir *)

IndexFiles == {"inverted_index.pkl", "term_document_freq.pkl", "metadata.json"}

\* An index directory with its documents directory and no file.  A file that was
\* opened for writing and not written to its end is partial: it exists and does
\* not parse.
EmptyStorage ==
    [documents          |-> EmptyMap,
     files              |-> {},
     inverted_index     |-> EmptyMap,
     term_document_freq |-> EmptyMap,
     metadata           |-> [total_documents |-> 0],
     partial_documents  |-> {},
     partial_files      |-> {}]

save_document(store, doc_id, document_data) ==
    [store EXCEPT !.documents = Put(store.documents, doc_id, document_data),
                  !.partial_documents = store.partial_documents \ {doc_id}]

save_inverted_index(store, index) ==
    [store EXCEPT !.inverted_index = index,
                  !.files = store.files \cup {"inverted_index.pkl"},
                  !.partial_files = store.partial_files \ {"inverted_index.pkl"}]

save_term_document_freq(store, freq) ==
    [store EXCEPT !.term_document_freq = freq,
                  !.files = store.files \cup {"term_document_freq.pkl"},
                  !.partial_files = store.partial_files \ {"term_document_freq.pkl"}]

save_metadata(store, metadata) ==
    [store EXCEPT !.metadata = metadata,
                  !.files = store.files \cup {"metadata.json"},
                  !.partial_files = store.partial_files \ {"metadata.json"}]

\* Indexer._save_index
save_index(store, index, freq, total) ==
    save_metadata(
        save_term_document_freq(save_inverted_index(store, index), freq),
        [total_documents |-> total])

-----------------------------------------------------------------------------
(* The calls and their record *)

NoDocument == [id |-> "", title |-> <<>>, data |-> <<>>]

\* The request threads: two that serve index requests and one that serves search
\* requests.
IndexThreads == {"index-1", "index-2"}

SearchThreads == {"search-1"}

\* A thread that is in no call.
Idle == [pc |-> "idle"]

NoThreads == [t \in IndexThreads \cup SearchThreads |-> Idle]

\* The record of a call: its name, the document given to index_document, and the
\* number of phrase-cache entries the call dropped.
Call(op, document, dropped) == [op |-> op, document |-> document, dropped |-> dropped]

Init ==
    /\ document_store = EmptyMap
    /\ inverted_index = EmptyMap
    /\ term_document_freq = EmptyMap
    /\ total_documents = 0
    /\ phrase_cache = EmptyMap
    /\ storage = EmptyStorage
    /\ hash_order \in Orders(DocIds)
    /\ last = Call("init", NoDocument, 0)
    /\ faults = 0
    /\ threads = NoThreads

\* Indexer.index_document(document), returning True.
index_document(document) ==
    LET doc_id       == document.id
        doc_record   == DocRecord(document)
        title_vector == build_document_vector(doc_record.title_tokens)
        data_vector  == build_document_vector(doc_record.data_tokens)
        index1       == IndexTitleTerms(inverted_index, doc_id, title_vector)
        index2       == IndexDataTerms(index1, doc_id, data_vector)
        updated_terms == DOMAIN title_vector \cup DOMAIN data_vector
        freq         == UpdateDocumentFreq(term_document_freq, updated_terms)
        total        == IncrementTotal(total_documents)
    IN /\ document_store' = Put(document_store, doc_id, doc_record)
       /\ inverted_index' = index2
       /\ term_document_freq' = freq
       /\ total_documents' = total
       /\ phrase_cache' = ClearPhraseCache
       /\ storage' = save_index(save_document(storage, doc_id, doc_record),
                                index2, freq, total)
       /\ last' = Call("index_document", document,
                       Cardinality(DOMAIN phrase_cache \ DOMAIN ClearPhraseCache))
       /\ UNCHANGED <<hash_order, faults, threads>>

\* Indexer.get_index_stats (index_size_bytes, a sum of file sizes, is left out).
get_index_stats ==
    [total_documents |-> total_documents,
     unique_terms    |-> Cardinality(DOMAIN inverted_index)]

Ingest ==
    /\ total_documents < MaxIngests
    /\ \E document \in Documents : index_document(document)

-----------------------------------------------------------------------------
(* Searcher *)

\* The tf of a posting under the field argument.
SelectTf(term_data, field) ==
    CASE field = "title" -> term_data.title_tf
      [] field = "data"  -> term_data.data_tf
      [] OTHER           -> Max(term_data.title_tf, term_data.data_tf)

Result(doc, score) ==
    [id |-> doc.id, title |-> doc.title, data |-> doc.data, score |-> score]

ResultIds(results) == { results[i].id : i \in 1..Len(results) }

\* list.sort(key=score, reverse=True): stable, equal scores keep their order.
InsertByScore(sorted, x) ==
    LET n == Cardinality({ i \in 1..Len(sorted) : sorted[i].score >= x.score })
    IN SubSeq(sorted, 1, n) \o <<x>> \o SubSeq(sorted, n + 1, Len(sorted))

RECURSIVE SortByScore(_)
SortByScore(items) ==
    IF items = <<>> THEN <<>>
    ELSE InsertByScore(SortByScore(SubSeq(items, 1, Len(items) - 1)), items[Len(items)])

\* doc_scores[doc_id] += delta on a defaultdict(float): a new key goes last.
AddScore(doc_scores, doc_id, delta) ==
    IF \E i \in 1..Len(doc_scores) : doc_scores[i].id = doc_id
    THEN [i \in 1..Len(doc_scores) |->
            IF doc_scores[i].id = doc_id
            THEN [id |-> doc_id, score |-> doc_scores[i].score + delta]
            ELSE doc_scores[i]]
    ELSE Append(doc_scores, [id |-> doc_id, score |-> delta])

ScoreFirstPosting(doc_scores, postings, i, idf, field) ==
    IF postings = <<>> THEN doc_scores
    ELSE AddScore(doc_scores, postings[1].id, SelectTf(postings[1], field) * idf)

\* The loop over inverted_index[term].items() of _term_search.
RECURSIVE ScorePostings(_, _, _, _, _)
ScorePostings(doc_scores, postings, i, idf, field) ==
    IF i > Len(postings) THEN doc_scores
    ELSE ScorePostings(
            AddScore(doc_scores, postings[i].id, SelectTf(postings[i], field) * idf),
            postings, i + 1, idf, field)

\* The loop over terms of _term_search.
RECURSIVE ScoreTerms(_, _, _, _)
ScoreTerms(doc_scores, terms, j, field) ==
    IF j > Len(terms) THEN doc_scores
    ELSE IF terms[j] \notin DOMAIN inverted_index
         THEN ScoreTerms(doc_scores, terms, j + 1, field)
         ELSE ScoreTerms(
                ScorePostings(doc_scores, inverted_index[terms[j]], 1,
                              calculate_idf(terms[j]), field),
                terms, j + 1, field)

EmitRankedNonzero(doc_id, score) == doc_id \in DOMAIN document_store /\ score # 0

\* Whether _term_search appends a result for a ranked (doc_id, score).
EmitRanked(doc_id, score) == doc_id \in DOMAIN document_store

\* Searcher._term_search
term_search(terms, field) ==
    IF terms = <<>> THEN <<>>
    ELSE LET ranked_docs == SortByScore(ScoreTerms(<<>>, terms, 1, field))
             Emitted(r)  == EmitRanked(r.id, r.score)
             kept        == SelectSeq(ranked_docs, Emitted)
         IN [i \in 1..Len(kept) |-> Result(document_store[kept[i].id], kept[i].score)]

check_consecutive_terms_any_order(tokens, phrase_terms) ==
    /\ Len(tokens) >= Len(phrase_terms)
    /\ \E i \in 1..(Len(tokens) - Len(phrase_terms) + 1) :
          Range(SubSeq(tokens, i, i + Len(phrase_terms) - 1)) = Range(phrase_terms)

\* Searcher._check_consecutive_terms
check_consecutive_terms(tokens, phrase_terms) ==
    /\ Len(tokens) >= Len(phrase_terms)
    /\ \E i \in 1..(Len(tokens) - Len(phrase_terms) + 1) :
          \A j \in 1..Len(phrase_terms) : tokens[i + j - 1] = phrase_terms[j]

\* The doc ids holding a posting for term: set(inverted_index[term].keys()).
TermDocs(term) == { inverted_index[term][i].id : i \in 1..Len(inverted_index[term]) }

\* The score loop of _phrase_search, boosted.
RECURSIVE PhraseScore(_, _, _, _)
PhraseScore(phrase_terms, j, doc_id, field) ==
    IF j > Len(phrase_terms) THEN 0
    ELSE (IF HasPosting(inverted_index, phrase_terms[j], doc_id)
          THEN LET postings  == inverted_index[phrase_terms[j]]
                   term_data == postings[PostingIndex(postings, doc_id)]
               IN SelectTf(term_data, field) * calculate_idf(phrase_terms[j])
          ELSE 0)
         + PhraseScore(phrase_terms, j + 1, doc_id, field)

PhraseMatches(doc, phrase_terms, field) ==
    LET phrase_in_title == /\ field \in {"None", "title"}
                           /\ check_consecutive_terms(doc.title_tokens, phrase_terms)
        phrase_in_data  == /\ field \in {"None", "data"}
                           /\ check_consecutive_terms(doc.data_tokens, phrase_terms)
    IN phrase_in_title \/ phrase_in_data

\* What a call of the searcher gives: the list returned (or the exception raised),
\* the phrase cache it leaves, whether the phrase cache answered it, and the branch
\* of Searcher.search that answered it.
Outcome(path, results, cache, raised, hit) ==
    [path |-> path, results |-> results, cache |-> cache, raised |-> raised, hit |-> hit]

\* Searcher._phrase_search; order is the iteration order of the candidate set.
phrase_search(cache, phrase, field, order) ==
    LET cache_key    == <<phrase, field>>
        phrase_terms == preprocess_text(phrase)
        candidate_docs ==
            { d \in TermDocs(phrase_terms[1]) :
                \A j \in 2..Len(phrase_terms) : d \in TermDocs(phrase_terms[j]) }
        InCandidates(d) == d \in candidate_docs
        candidates   == SelectSeq(order, InCandidates)
        Matches(d)   == PhraseMatches(document_store[d], phrase_terms, field)
        matching     == SelectSeq(candidates, Matches)
        results      == SortByScore(
                          [i \in 1..Len(matching) |->
                             Result(document_store[matching[i]],
                                    2 * PhraseScore(phrase_terms, 1, matching[i], field))])
    IN IF cache_key \in DOMAIN cache
       THEN Outcome("phrase", cache[cache_key], cache, "none", TRUE)
       ELSE IF phrase_terms = <<>>
       THEN Outcome("phrase", <<>>, cache, "none", FALSE)
       ELSE IF \E j \in 1..Len(phrase_terms) : phrase_terms[j] \notin DOMAIN inverted_index
       THEN Outcome("phrase", <<>>, cache, "none", FALSE)
       ELSE IF \E d \in candidate_docs : d \notin DOMAIN document_store
       THEN Outcome("phrase", <<>>, cache, "KeyError", FALSE)
       ELSE Outcome("phrase", results, Put(cache, cache_key, results), "none", FALSE)

\* re.findall(r'"([^"]*)"', query): the texts between an opening quote and the
\* next quote, from left to right; each item is [first, last] positions of a pair.
RECURSIVE QuotePairs(_, _)
QuotePairs(query, from) ==
    LET opens == { i \in from..Len(query) : query[i] = Quote }
    IN IF opens = {} THEN <<>>
       ELSE LET a      == CHOOSE i \in opens : \A k \in opens : i <= k
                closes == { i \in (a + 1)..Len(query) : query[i] = Quote }
            IN IF closes = {} THEN <<>>
               ELSE LET b == CHOOSE i \in closes : \A k \in closes : i <= k
                    IN <<[first |-> a, last |-> b]>> \o QuotePairs(query, b + 1)

\* Searcher._detect_phrases
detect_phrases(query) ==
    LET pairs    == QuotePairs(query, 1)
        phrases  == [k \in 1..Len(pairs) |->
                       SubSeq(query, pairs[k].first + 1, pairs[k].last - 1)]
        Quoted(i) == \E k \in 1..Len(pairs) : pairs[k].first <= i /\ i <= pairs[k].last
        positions == [i \in 1..Len(query) |-> i]
        NotQuoted(i) == ~Quoted(i)
        remaining == SelectSeq(positions, NotQuoted)
        remaining_text == [k \in 1..Len(remaining) |-> query[remaining[k]]]
    IN [individual_terms |-> preprocess_text(remaining_text),
        phrases          |-> [k \in 1..Len(phrases) |-> preprocess_text(phrases[k])]]

\* Searcher.search
search(cache, query, field, use_phrase_query, order) ==
    IF query = <<>>
    THEN Outcome("empty", <<>>, cache, "none", FALSE)
    ELSE IF use_phrase_query
    THEN [phrase_search(cache, query, field, order) EXCEPT !.path = "forced"]
    ELSE IF <<query, field>> \in DOMAIN cache
    THEN Outcome("cached", cache[<<query, field>>], cache, "none", TRUE)
    ELSE LET detected         == detect_phrases(query)
             individual_terms == detected.individual_terms
             phrases          == detected.phrases
         IN IF phrases # <<>> /\ individual_terms # <<>>
            THEN LET phrase_out   == phrase_search(cache, phrases[1], field, order)
                     term_results == term_search(individual_terms, field)
                     InPhrase(r)  == r.id \in ResultIds(phrase_out.results)
                 IN Outcome("combined", SelectSeq(term_results, InPhrase),
                            phrase_out.cache, phrase_out.raised, phrase_out.hit)
            ELSE IF phrases # <<>>
            THEN phrase_search(cache, phrases[1], field, order)
            ELSE Outcome("terms", term_search(individual_terms, field), cache, "none", FALSE)

-----------------------------------------------------------------------------
(* The specification: one process making index_document and search calls *)

SearchCall(query, field, use_phrase_query) ==
    LET out == search(phrase_cache, query, field, use_phrase_query, hash_order)
    IN /\ Cardinality(DOMAIN out.cache) <= MaxCache
       /\ phrase_cache' = out.cache
       /\ last' = Call("search", NoDocument, 0)
       /\ UNCHANGED <<document_store, inverted_index, term_document_freq,
                      total_documents, storage, hash_order, faults, threads>>

Search ==
    \E query \in Queries, field \in Fields, use_phrase_query \in BOOLEAN :
        SearchCall(query, field, use_phrase_query)

Next == Ingest \/ Search

Spec == Init /\ [][Next]_vars

-----------------------------------------------------------------------------
(* Writes that fail, crashes, and the restart of the process *)

\* The number of calls in a run that a failed write or a crash ends.
MaxFaults == 1

\* The files index_document writes, in the order it writes them: save_document,
\* then the three writes of _save_index.
Writes == <<"documents", "inverted_index.pkl", "term_document_freq.pkl", "metadata.json">>

\* What a write that does not end leaves of its file: open(path, 'w') that raises
\* leaves it untouched; once open the file is truncated, and a dump that does not
\* reach its end leaves it partial.
Interruptions == {"untouched", "partial"}

\* open(doc_path, 'w') done, json.dump(document_data, f) not.
open_document(store, doc_id, document_data) ==
    [store EXCEPT !.documents = Put(store.documents, doc_id, document_data),
                  !.partial_documents = store.partial_documents \cup {doc_id}]

\* open(file, 'wb') or open(file, 'w') done, the dump not.
open_file(store, file) ==
    [store EXCEPT !.files = store.files \cup {file},
                  !.partial_files = store.partial_files \cup {file}]

\* What index_document(document) computes from the index as it is.
Ingestion(document) ==
    LET doc_record   == DocRecord(document)
        title_vector == build_document_vector(doc_record.title_tokens)
        data_vector  == build_document_vector(doc_record.data_tokens)
        index1       == IndexTitleTerms(inverted_index, document.id, title_vector)
    IN [doc_record |-> doc_record,
        index      |-> IndexDataTerms(index1, document.id, data_vector),
        freq       |-> UpdateDocumentFreq(term_document_freq,
                                          DOMAIN title_vector \cup DOMAIN data_vector),
        total      |-> IncrementTotal(total_documents)]

\* The files once the first n writes of index_document are done.
write_through(store, n, doc_id, ing) ==
    LET s1 == IF n >= 1 THEN save_document(store, doc_id, ing.doc_record) ELSE store
        s2 == IF n >= 2 THEN save_inverted_index(s1, ing.index) ELSE s1
        s3 == IF n >= 3 THEN save_term_document_freq(s2, ing.freq) ELSE s2
    IN IF n >= 4 THEN save_metadata(s3, [total_documents |-> ing.total]) ELSE s3

\* The files once write number w of index_document was interrupted.
interrupted_write(store, w, how, doc_id, ing) ==
    LET done == write_through(store, w - 1, doc_id, ing)
    IN IF how = "untouched" THEN done
       ELSE IF w = 1 THEN open_document(done, doc_id, ing.doc_record)
       ELSE open_file(done, Writes[w])

\* The process is running: it has not crashed since it was last started.
Up == last.op # "crash"

\* Indexer.index_document(document) when write number w raises: save_document
\* (line 85) runs after the document store is assigned (line 82) and before the
\* postings, the frequencies, the total and the phrase cache are (lines 88-121);
\* _save_index (line 124) runs after all of them.
index_document_raises(document, w, how) ==
    LET ing     == Ingestion(document)
        applied == w > 1
        cache   == IF applied THEN ClearPhraseCache ELSE phrase_cache
    IN /\ document_store' = Put(document_store, document.id, ing.doc_record)
       /\ inverted_index' = (IF applied THEN ing.index ELSE inverted_index)
       /\ term_document_freq' = (IF applied THEN ing.freq ELSE term_document_freq)
       /\ total_documents' = (IF applied THEN ing.total ELSE total_documents)
       /\ phrase_cache' = cache
       /\ storage' = interrupted_write(storage, w, how, document.id, ing)
       /\ last' = Call("index_document raised", document,
                       Cardinality(DOMAIN phrase_cache \ DOMAIN cache))
       /\ faults' = faults + 1
       /\ UNCHANGED <<hash_order, threads>>

\* The process dies in index_document(document) at write number w: what was in
\* memory is gone, the files stay as they are.
index_document_crashes(document, w, how) ==
    /\ document_store' = EmptyMap
    /\ inverted_index' = EmptyMap
    /\ term_document_freq' = EmptyMap
    /\ total_documents' = 0
    /\ phrase_cache' = EmptyMap
    /\ storage' = interrupted_write(storage, w, how, document.id, Ingestion(document))
    /\ last' = Call("crash", document, 0)
    /\ faults' = faults + 1
    /\ UNCHANGED <<hash_order, threads>>

load_inverted_index(store) ==
    IF "inverted_index.pkl" \in store.files THEN store.inverted_index ELSE EmptyMap

\* The key of a document is its file name without '.json'.
load_all_documents(store) == store.documents

load_term_document_freq(store) ==
    IF "term_document_freq.pkl" \in store.files THEN store.term_document_freq ELSE EmptyMap

load_metadata(store) ==
    IF "metadata.json" \in store.files THEN store.metadata ELSE [total_documents |-> 0]

\* pickle.load or json.load of a partial file raises.
LoadRaises(store) == store.partial_files # {} \/ store.partial_documents # {}

\* Indexer._load_index: the four loads in one try, and the reset when one raises.
load_index(store) ==
    IF LoadRaises(store)
    THEN [inverted_index     |-> EmptyMap,
          document_store     |-> EmptyMap,
          term_document_freq |-> EmptyMap,
          total_documents    |-> 0]
    ELSE [inverted_index     |-> load_inverted_index(store),
          document_store     |-> load_all_documents(store),
          term_document_freq |-> load_term_document_freq(store),
          total_documents    |-> load_metadata(store).total_documents]

\* Indexer.__init__ in a new process over the same index directory.
Restart ==
    /\ LET loaded == load_index(storage)
       IN /\ inverted_index' = loaded.inverted_index
          /\ document_store' = loaded.document_store
          /\ term_document_freq' = loaded.term_document_freq
          /\ total_documents' = loaded.total_documents
    /\ phrase_cache' = EmptyMap
    /\ hash_order' \in Orders(DocIds)
    /\ last' = Call("restart", NoDocument, 0)
    /\ UNCHANGED <<storage, faults, threads>>

IngestUp == Up /\ Ingest

SearchUp == Up /\ Search

IngestRaises ==
    /\ Up
    /\ faults < MaxFaults
    /\ total_documents < MaxIngests
    /\ \E document \in Documents, w \in 1..Len(Writes), how \in Interruptions :
          index_document_raises(document, w, how)

IngestCrashes ==
    /\ Up
    /\ faults < MaxFaults
    /\ total_documents < MaxIngests
    /\ \E document \in Documents, w \in 1..Len(Writes), how \in Interruptions :
          index_document_crashes(document, w, how)

NextFaults == IngestUp \/ SearchUp \/ IngestRaises \/ IngestCrashes \/ Restart

SpecFaults == Init /\ [][NextFaults]_vars

-----------------------------------------------------------------------------
(* Request threads on the shared Indexer: index_document and search run with no *)
(* lock around the in-memory structures, statement by statement                 *)

\* The index requests run side by side are for different ids: each index thread
\* has the id of its request.
ThreadDocId(t) == IF t = "index-1" THEN "1" ELSE "2"

ThreadDocuments(t) == { document \in Documents : document.id = ThreadDocId(t) }

\* The thread t with its call record replaced.
At(t, call) == [threads EXCEPT ![t] = call]

\* Line 82: self.document_store[doc_id] = doc_record.
BeginIndex(t, document) ==
    /\ threads[t].pc = "idle"
    /\ document_store' = Put(document_store, document.id, DocRecord(document))
    /\ threads' = At(t, [pc |-> "save_document", document |-> document])
    /\ UNCHANGED <<inverted_index, term_document_freq, total_documents, phrase_cache,
                   storage, hash_order, last, faults>>

\* Line 85: self.storage.save_document(doc_id, doc_record), under the storage lock.
SaveDocument(t) ==
    /\ threads[t].pc = "save_document"
    /\ storage' = save_document(storage, threads[t].document.id,
                                DocRecord(threads[t].document))
    /\ threads' = At(t, [threads[t] EXCEPT !.pc = "title"])
    /\ UNCHANGED <<document_store, inverted_index, term_document_freq, total_documents,
                   phrase_cache, hash_order, last, faults>>

\* Lines 94-100: the loop over title_vector.items().
TitleTerms(t) ==
    /\ threads[t].pc = "title"
    /\ LET document     == threads[t].document
           title_vector == build_document_vector(DocRecord(document).title_tokens)
       IN inverted_index' = IndexTitleTerms(inverted_index, document.id, title_vector)
    /\ threads' = At(t, [threads[t] EXCEPT !.pc = "data"])
    /\ UNCHANGED <<document_store, term_document_freq, total_documents, phrase_cache,
                   storage, hash_order, last, faults>>

\* Lines 102-111: the loop over data_vector.items(); updated_terms is complete.
DataTerms(t) ==
    /\ threads[t].pc = "data"
    /\ LET document    == threads[t].document
           doc_record  == DocRecord(document)
           data_vector == build_document_vector(doc_record.data_tokens)
       IN /\ inverted_index' = IndexDataTerms(inverted_index, document.id, data_vector)
          /\ threads' = At(t, [pc            |-> "freq",
                               document      |-> document,
                               updated_terms |-> Range(doc_record.title_tokens)
                                                 \cup Range(doc_record.data_tokens)])
    /\ UNCHANGED <<document_store, term_document_freq, total_documents, phrase_cache,
                   storage, hash_order, last, faults>>

\* Line 115, first half: the read of self.term_document_freq[term] for the next
\* term of the set updated_terms (0 for a new key of the defaultdict).
ReadFreq(t) ==
    /\ threads[t].pc = "freq"
    /\ \E term \in threads[t].updated_terms :
          threads' = At(t, [pc            |-> "freq_write",
                            document      |-> threads[t].document,
                            updated_terms |-> threads[t].updated_terms \ {term},
                            term          |-> term,
                            read          |-> IF term \in DOMAIN term_document_freq
                                              THEN term_document_freq[term] ELSE 0])
    /\ UNCHANGED <<document_store, inverted_index, term_document_freq, total_documents,
                   phrase_cache, storage, hash_order, last, faults>>

\* Line 115, second half: the store of the value read plus one.
WriteFreq(t) ==
    /\ threads[t].pc = "freq_write"
    /\ term_document_freq' = Put(term_document_freq, threads[t].term, threads[t].read + 1)
    /\ threads' = At(t, [pc            |-> IF threads[t].updated_terms = {}
                                           THEN "total" ELSE "freq",
                         document      |-> threads[t].document,
                         updated_terms |-> threads[t].updated_terms])
    /\ UNCHANGED <<document_store, inverted_index, total_documents, phrase_cache,
                   storage, hash_order, last, faults>>

\* Line 118, first half: the read of self.total_documents.
ReadTotal(t) ==
    /\ threads[t].pc = "total"
    /\ threads' = At(t, [pc       |-> "total_write",
                         document |-> threads[t].document,
                         read     |-> total_documents])
    /\ UNCHANGED <<document_store, inverted_index, term_document_freq, total_documents,
                   phrase_cache, storage, hash_order, last, faults>>

\* Line 118, second half: the store of the value read plus one.
WriteTotal(t) ==
    /\ threads[t].pc = "total_write"
    /\ total_documents' = IncrementTotal(threads[t].read)
    /\ threads' = At(t, [pc |-> "flush", document |-> threads[t].document])
    /\ UNCHANGED <<document_store, inverted_index, term_document_freq, phrase_cache,
                   storage, hash_order, last, faults>>

\* Line 121: self.phrase_cache = {}.
FlushCache(t) ==
    /\ threads[t].pc = "flush"
    /\ phrase_cache' = ClearPhraseCache
    /\ threads' = At(t, [threads[t] EXCEPT !.pc = "save_index"])
    /\ UNCHANGED <<document_store, inverted_index, term_document_freq, total_documents,
                   storage, hash_order, last, faults>>

\* Lines 124-126: self._save_index() and the return.
SaveIndex(t) ==
    /\ threads[t].pc = "save_index"
    /\ storage' = save_index(storage, inverted_index, term_document_freq, total_documents)
    /\ threads' = At(t, [threads[t] EXCEPT !.pc = "done"])
    /\ last' = Call("index_document", threads[t].document, 0)
    /\ UNCHANGED <<document_store, inverted_index, term_document_freq, total_documents,
                   phrase_cache, hash_order, faults>>

\* Searcher.search up to the sort of line 213: the lookups in the phrase cache, the
\* index and the document store, on the memory as it is.
BeginSearch(t, query, field, use_phrase_query) ==
    /\ threads[t].pc = "idle"
    /\ LET out    == search(phrase_cache, query, field, use_phrase_query, hash_order)
           stored == DOMAIN out.cache \ DOMAIN phrase_cache
       IN threads' = At(t, IF stored = {}
                           THEN [pc |-> "done"]
                           ELSE [pc        |-> "store",
                                 cache_key |-> CHOOSE key \in stored : TRUE,
                                 results   |-> out.cache[CHOOSE key \in stored : TRUE]])
    /\ UNCHANGED <<document_store, inverted_index, term_document_freq, total_documents,
                   phrase_cache, storage, hash_order, last, faults>>

\* Line 216: self.indexer.phrase_cache[cache_key] = results, on the dict that
\* self.indexer.phrase_cache is by now.
StoreResults(t) ==
    /\ threads[t].pc = "store"
    /\ phrase_cache' = Put(phrase_cache, threads[t].cache_key, threads[t].results)
    /\ threads' = At(t, [pc |-> "done"])
    /\ last' = Call("search", NoDocument, 0)
    /\ UNCHANGED <<document_store, inverted_index, term_document_freq, total_documents,
                   storage, hash_order, faults>>

\* The steps of one index_document call on thread t.
IndexCall(t) ==
    \/ \E document \in ThreadDocuments(t) : BeginIndex(t, document)
    \/ SaveDocument(t)
    \/ TitleTerms(t)
    \/ DataTerms(t)
    \/ ReadFreq(t)
    \/ WriteFreq(t)
    \/ ReadTotal(t)
    \/ WriteTotal(t)
    \/ FlushCache(t)
    \/ SaveIndex(t)

\* The steps of one search call on thread t.
SearchCallSteps(t) ==
    \/ \E query \in Queries, field \in Fields, use_phrase_query \in BOOLEAN :
          BeginSearch(t, query, field, use_phrase_query)
    \/ StoreResults(t)

\* The second index request, sent once the first has returned.
IndexCallInTurn == threads["index-1"].pc = "done" /\ IndexCall("index-2")

\* A search request served while index requests are, one index request at a time.
NextSearchDuringIndex ==
    IndexCall("index-1") \/ IndexCallInTurn \/ SearchCallSteps("search-1")

SpecSearchDuringIndex == Init /\ [][NextSearchDuringIndex]_vars

\* Two index requests served side by side.
NextTwoIndexers == \E t \in IndexThreads : IndexCall(t)

SpecTwoIndexers == Init /\ [][NextTwoIndexers]_vars

-----------------------------------------------------------------------------
(* The request handlers of views.py on the global indexer and searcher *)

\* del result['score'] on a result dict.
DelScore(result) == [f \in DOMAIN result \ {"score"} |-> result[f]]

\* The loop of SearchView.get over the list search returned.
RemoveScores(results) == [i \in 1..Len(results) |-> DelScore(results[i])]

\* The keys of the phrase cache whose entry is the very list search returned:
\* _phrase_search returns the list it finds in the cache or the list it stores
\* there, search returns the list it finds under the raw query; the lists of
\* _term_search and of the merge are new.
ReturnedEntry(out, query, field) ==
    LET keys == CASE out.path \in {"forced", "cached"} -> { <<query, field>> }
                  [] out.path = "phrase" -> { <<detect_phrases(query).phrases[1], field>> }
                  [] OTHER -> {}
    IN keys \cap DOMAIN out.cache

\* SearchView.get(q, field, phrase) for a non-empty q: the search and the removal
\* of score from the dicts of the list it returned.
SearchViewGet(query, field, phrase_query) ==
    LET out     == search(phrase_cache, query, field, phrase_query, hash_order)
        entries == ReturnedEntry(out, query, field)
    IN /\ query # <<>>
       /\ Cardinality(DOMAIN out.cache) <= MaxCache
       /\ phrase_cache' = [key \in DOMAIN out.cache |->
                              IF key \in entries THEN RemoveScores(out.cache[key])
                              ELSE out.cache[key]]
       /\ last' = Call("SearchView.get", NoDocument, 0)
       /\ UNCHANGED <<document_store, inverted_index, term_document_freq,
                      total_documents, storage, hash_order, faults, threads>>

SearchRequest ==
    \E query \in Queries, field \in Fields, phrase_query \in BOOLEAN :
        SearchViewGet(query, field, phrase_query)

\* Index requests and search requests, one after the other.
NextRequests == Ingest \/ SearchRequest

SpecRequests == Init /\ [][NextRequests]_vars

-----------------------------------------------------------------------------
(* Properties *)

\* The terms of the current version of a stored document.
CurrentTerms(doc_id) ==
    Range(document_store[doc_id].title_tokens) \cup Range(document_store[doc_id].data_tokens)

\* The relative frequency of term in a token sequence, in units of 1/TfScale.
RelativeFrequency(tokens, term) ==
    IF Len(tokens) = 0 THEN 0 ELSE (Count(tokens, term) * TfScale) \div Len(tokens)

\* terms is a contiguous, order-preserving subsequence of tokens.
OccursContiguously(tokens, terms) ==
    \E i \in 0..(Len(tokens) - Len(terms)) : SubSeq(tokens, i + 1, i + Len(terms)) = terms

\* The token sequences of a document a phrase may match in under a field filter.
AllowedFieldTokens(doc, field) ==
    (IF field \in {"None", "title"} THEN {doc.title_tokens} ELSE {})
    \cup (IF field \in {"None", "data"} THEN {doc.data_tokens} ELSE {})

\* The phrase texts and term queries the properties ask about: the queries of the
\* search calls and some that are never cached.
PhraseTexts ==
    Queries \cup { <<"cats">>, <<"dogs", "loyal">>, <<"great", "pets">>, <<"Cats", "and", "dogs">>,
                   <<"birds">>, <<"and">> }

\* C1: total_documents, as stats reports it, is the number of distinct document
\* ids ingested so far; re-ingesting an id leaves it unchanged.
C1_TotalDocumentsCountsDistinctIds ==
    get_index_stats.total_documents = Cardinality(DOMAIN document_store)

\* C2: for every term, its document-frequency count is the number of distinct
\* document ids that have a posting under it.
C2_DocumentFrequencyCountsPostings ==
    /\ DOMAIN term_document_freq = DOMAIN inverted_index
    /\ \A term \in DOMAIN inverted_index :
          term_document_freq[term] = Cardinality(TermDocs(term))

\* C3: a term-only search returns the TF-IDF term search of the current index,
\* and neither it nor a combined phrase-plus-terms search is answered from the
\* phrase cache, whatever searches came before.
C3_TermSearchNotFromCache ==
    \A query \in Queries \ {<<>>}, field \in Fields :
        LET detected == detect_phrases(query)
            out      == search(phrase_cache, query, field, FALSE, hash_order)
        IN /\ detected.phrases = <<>> =>
                /\ out.path = "terms"
                /\ out.results = term_search(detected.individual_terms, field)
           /\ (detected.phrases # <<>> /\ detected.individual_terms # <<>>) =>
                out.path = "combined"

\* C4: term search emits a document only when its accumulated score is nonzero;
\* with field = title a document holding the query terms only in its body is not
\* in the result.
C4_TermSearchEmitsNonzeroOnly ==
    \A query \in PhraseTexts, field \in Fields :
        LET terms   == preprocess_text(query)
            results == term_search(terms, field)
        IN \A i \in 1..Len(results) :
              /\ results[i].score # 0
              /\ field = "title" =>
                    \E j \in 1..Len(terms) :
                        terms[j] \in Range(document_store[results[i].id].title_tokens)

\* C5: every posting (term, doc id) holds the relative frequency of the term in
\* the document's currently stored title tokens and body tokens.
C5_PostingsHoldCurrentFrequencies ==
    \A term \in DOMAIN inverted_index :
        \A i \in 1..Len(inverted_index[term]) :
            LET posting == inverted_index[term][i]
            IN /\ posting.id \in DOMAIN document_store
               /\ posting.title_tf =
                    RelativeFrequency(document_store[posting.id].title_tokens, term)
               /\ posting.data_tf =
                    RelativeFrequency(document_store[posting.id].data_tokens, term)

\* C6: a term is a key of the inverted index iff it occurs in the current title or
\* body tokens of a stored document, so unique_terms counts the current vocabulary.
C6_IndexKeysAreCurrentVocabulary ==
    LET vocabulary == UNION { CurrentTerms(d) : d \in DOMAIN document_store }
    IN /\ DOMAIN inverted_index = vocabulary
       /\ get_index_stats.unique_terms = Cardinality(vocabulary)

\* C7: an index_document call leaves no phrase-cache entry that was there before it.
C7_IngestFlushesPhraseCache ==
    [][Ingest => DOMAIN phrase_cache \cap DOMAIN phrase_cache' = {}]_vars

\* C7 witness: an index_document call has just dropped cached phrase results.
C7_Witness ==
    /\ last.op = "index_document"
    /\ last.dropped > 0
    /\ phrase_cache = EmptyMap

\* C8: on a cache miss, phrase search for a phrase of at least one term returns
\* exactly the stored documents in which the phrase terms occur contiguously and in
\* order in a field the filter allows (title and/or data when there is no filter),
\* each once.
C8_PhraseSearchExactOnMiss ==
    \A phrase \in PhraseTexts, field \in Fields :
        LET out          == phrase_search(phrase_cache, phrase, field, hash_order)
            phrase_terms == preprocess_text(phrase)
        IN (~out.hit /\ phrase_terms # <<>>) =>
              /\ out.raised = "none"
              /\ Len(out.results) = Cardinality(ResultIds(out.results))
              /\ ResultIds(out.results) =
                    { d \in DOMAIN document_store :
                        \E tokens \in AllowedFieldTokens(document_store[d], field) :
                            OccursContiguously(tokens, phrase_terms) }

\* C8 witness: the phrase 'loyal dogs' has been searched and cached; it matched the
\* document holding 'loyal dogs' and not the one holding 'dogs loyal'.
C8_Witness ==
    /\ last.op = "search"
    /\ <<<<"loyal", "dogs">>, "None">> \in DOMAIN phrase_cache
    /\ \E d, e \in DOMAIN document_store :
          /\ document_store[d].data_tokens = <<"loyal", "dogs">>
          /\ document_store[e].data_tokens = <<"dogs", "loyal">>
          /\ ResultIds(phrase_cache[<<<<"loyal", "dogs">>, "None">>]) = {d}

\* C9: for every stored document and every term of its current title or body
\* tokens, search(term) with no field filter returns the document.
C9_SearchFindsEveryCurrentTerm ==
    \A d \in DOMAIN document_store :
        \A term \in CurrentTerms(d) :
            LET out == search(phrase_cache, <<term>>, "None", FALSE, hash_order)
            IN out.raised = "none" /\ d \in ResultIds(out.results)

\* C9 witness: two documents are stored, a search has run, and the search for a
\* term of the second document computes a term search that returns it.
C9_Witness ==
    /\ last.op = "search"
    /\ DOMAIN document_store = DocIds
    /\ \E term \in CurrentTerms("2") :
          LET out == search(phrase_cache, <<term>>, "None", FALSE, hash_order)
          IN out.path = "terms" /\ "2" \in ResultIds(out.results)

\* The index holds exactly the document of the scenario, ingested once.
CatsDocument ==
    [id |-> "1", title |-> <<"Cats", "and", "Dogs">>, data |-> <<"Cats", "are", "great", "pets">>]

OnlyCatsIngested ==
    /\ total_documents = 1
    /\ DOMAIN document_store = {"1"}
    /\ document_store["1"] = DocRecord(CatsDocument)

\* C10 as stated: after ingesting only the 'Cats and Dogs' document, search("cats")
\* returns id "1" with a score strictly greater than 0.
C10_CatsScorePositive ==
    OnlyCatsIngested =>
        LET results == search(phrase_cache, <<"cats">>, "None", FALSE, hash_order).results
        IN \E i \in 1..Len(results) : results[i].id = "1" /\ results[i].score > 0

\* C10 as amended: after ingesting only the 'Cats and Dogs' document, search("cats")
\* returns exactly one result, for id "1", and its score is 0.
C10_CatsScoreZero ==
    OnlyCatsIngested =>
        LET results == search(phrase_cache, <<"cats">>, "None", FALSE, hash_order).results
        IN Len(results) = 1 /\ results[1].id = "1" /\ results[1].score = 0

\* C10 witness: only the 'Cats and Dogs' document is ingested and a search has run.
C10_Witness ==
    /\ OnlyCatsIngested
    /\ last.op = "search"
    /\ "cats" \in DOMAIN inverted_index

\* The memory holds all of index_document(document): the record, a posting with the
\* frequencies of every term of the document, a counted frequency for each, a
\* counted total, and an empty phrase cache.
FullyApplied(document) ==
    LET doc_record == DocRecord(document)
        terms      == Range(doc_record.title_tokens) \cup Range(doc_record.data_tokens)
    IN /\ document.id \in DOMAIN document_store
       /\ document_store[document.id] = doc_record
       /\ \A term \in terms :
             /\ HasPosting(inverted_index, term, document.id)
             /\ LET postings == inverted_index[term]
                    posting  == postings[PostingIndex(postings, document.id)]
                IN /\ posting.title_tf = RelativeFrequency(doc_record.title_tokens, term)
                   /\ posting.data_tf = RelativeFrequency(doc_record.data_tokens, term)
             /\ term \in DOMAIN term_document_freq
             /\ term_document_freq[term] >= 1
       /\ total_documents >= 1
       /\ phrase_cache = EmptyMap

\* C13: when a persistence write of index_document raises, the caller gets the
\* error and the memory holds the whole effect of the call: the new record, its
\* postings, frequencies and total, and a flushed phrase cache.
C13_FailedIngestFullyApplied ==
    last.op = "index_document raised" => FullyApplied(last.document)

\* One of the four persisted structures is missing or does not parse.
SomeStructureUnusable(store) ==
    \/ DOMAIN store.documents = {}
    \/ IndexFiles \ store.files # {}
    \/ store.partial_documents # {}
    \/ store.partial_files # {}

AllStructuresEmpty ==
    /\ document_store = EmptyMap
    /\ inverted_index = EmptyMap
    /\ term_document_freq = EmptyMap
    /\ total_documents = 0

\* C14: a start that finds one of the four persisted structures missing, truncated
\* or corrupt ends with all four in-memory structures empty.
C14_LoadAllOrNothing ==
    (last.op = "restart" /\ SomeStructureUnusable(storage)) => AllStructuresEmpty

\* C15: after a crash in index_document, the document file of the id is complete:
\* it holds a whole record or does not exist.
C15_DocumentFileCompleteAfterCrash ==
    last.op = "crash" => last.document.id \notin storage.partial_documents

\* C16: after calls that all succeeded, a new Indexer over the same index
\* directory loads a document store, inverted index, frequency table and
\* total_documents equal to those in memory, and every search returns in the new
\* process (empty phrase cache, its own hash order) what it returns in this one.
C16_RestartPreservesIndexAndSearches ==
    faults = 0 =>
        /\ load_index(storage) =
              [inverted_index     |-> inverted_index,
               document_store     |-> document_store,
               term_document_freq |-> term_document_freq,
               total_documents    |-> total_documents]
        /\ \A query \in Queries, field \in Fields, use_phrase_query \in BOOLEAN :
              \A order \in Orders(DocIds) :
                 search(phrase_cache, query, field, use_phrase_query, hash_order).results
                 = search(EmptyMap, query, field, use_phrase_query, order).results

\* C17: for every indexed term, the document frequency is at most total_documents,
\* so idf(term) >= 0, and idf(term) = 0 exactly when the term occurs in every
\* stored document.
C17_IdfZeroIffInEveryDocument ==
    \A term \in DOMAIN inverted_index :
        /\ term \in DOMAIN term_document_freq
        /\ term_document_freq[term] <= total_documents
        /\ calculate_idf(term) >= 0
        /\ (calculate_idf(term) = 0) <=>
              (\A d \in DOMAIN document_store : term \in CurrentTerms(d))

\* The scores of a result list do not rise along it.
ScoreDescending(results) ==
    \A i \in 1..(Len(results) - 1) : results[i].score >= results[i + 1].score

\* C18: every list search returns is ordered by score descending, and for a query
\* with a quoted phrase and free terms it is the term-search results whose id is in
\* the phrase-search result of the first phrase, with their scores, in their order.
C18_RankedAndCombinedByIntersection ==
    \A query \in Queries, field \in Fields, use_phrase_query \in BOOLEAN :
        LET out      == search(phrase_cache, query, field, use_phrase_query, hash_order)
            detected == detect_phrases(query)
        IN /\ ScoreDescending(out.results)
           /\ (~use_phrase_query /\ detected.phrases # <<>>
                                 /\ detected.individual_terms # <<>>) =>
                 LET phrase_results ==
                         phrase_search(phrase_cache, detected.phrases[1], field,
                                       hash_order).results
                     InPhrase(r) == r.id \in ResultIds(phrase_results)
                 IN out.results =
                       SelectSeq(term_search(detected.individual_terms, field), InPhrase)

\* C19: a phrase search computed on the same index returns the same ordered list
\* whatever the process it runs in, documents with equal scores included.
C19_PhraseOrderDeterministic ==
    \A phrase \in PhraseTexts, field \in Fields :
        \A order1, order2 \in Orders(DocIds) :
            phrase_search(EmptyMap, phrase, field, order1).results
            = phrase_search(EmptyMap, phrase, field, order2).results

\* Pairs of terms of the documents: adjacent in a field in one order or in both,
\* in different documents, and twice the same term.
TermPairs ==
    { <<"loyal", "dogs">>, <<"dogs", "loyal">>, <<"cats", "dogs">>, <<"cats", "loyal">>,
      <<"dogs", "dogs">> }

\* C20: for any two terms a, b of TermPairs and any field filter, every document
\* id the phrase query "a b" returns (quoted, or forced) is also returned by the
\* term query a b with the same filter, asked before or after the phrase query.
C20_PhraseContainedInTerms ==
    \A terms \in TermPairs, field \in Fields :
        \A quoted \in { search(phrase_cache, <<Quote>> \o terms \o <<Quote>>, field, FALSE,
                                hash_order) },
           forced \in { search(phrase_cache, terms, field, TRUE, hash_order) },
           terms_before \in { ResultIds(search(phrase_cache, terms, field, FALSE,
                                               hash_order).results) } :
            LET terms_after == search(quoted.cache, terms, field, FALSE, hash_order)
            IN /\ quoted.raised = "none" /\ forced.raised = "none"
               /\ ResultIds(quoted.results) \subseteq terms_before
               /\ ResultIds(quoted.results) \subseteq ResultIds(terms_after.results)
               /\ ResultIds(forced.results) \subseteq terms_before

\* C20 witness: two documents are stored and a search has run; the phrase query
\* "loyal dogs" returns one of them and the term query loyal dogs, computed by term
\* search, returns both.
C20_Witness ==
    /\ last.op = "search"
    /\ DOMAIN document_store = DocIds
    /\ LET quoted == search(phrase_cache, <<Quote, "loyal", "dogs", Quote>>, "None",
                            FALSE, hash_order)
           terms  == search(phrase_cache, <<"loyal", "dogs">>, "None", FALSE, hash_order)
       IN /\ terms.path = "terms"
          /\ Cardinality(ResultIds(quoted.results)) = 1
          /\ ResultIds(quoted.results) \subseteq ResultIds(terms.results)
          /\ ResultIds(terms.results) = DocIds

\* The four in-memory structures, a posting dict taken as the set of its entries.
MemoryView(store, index, freq, total) ==
    [document_store     |-> store,
     postings           |-> [term \in DOMAIN index |-> Range(index[term])],
     term_document_freq |-> freq,
     total_documents    |-> total]

CurrentMemory ==
    MemoryView(document_store, inverted_index, term_document_freq, total_documents)

\* index_document(document) run alone, from start to end, on the structures mem.
RunAlone(mem, document) ==
    LET doc_record   == DocRecord(document)
        title_vector == build_document_vector(doc_record.title_tokens)
        data_vector  == build_document_vector(doc_record.data_tokens)
        index1       == IndexTitleTerms(mem.inverted_index, document.id, title_vector)
    IN [document_store     |-> Put(mem.document_store, document.id, doc_record),
        inverted_index     |-> IndexDataTerms(index1, document.id, data_vector),
        term_document_freq |-> UpdateDocumentFreq(mem.term_document_freq,
                                  DOMAIN title_vector \cup DOMAIN data_vector),
        total_documents    |-> IncrementTotal(mem.total_documents)]

RECURSIVE RunInTurn(_, _)
RunInTurn(mem, documents) ==
    IF documents = <<>> THEN mem
    ELSE RunInTurn(RunAlone(mem, Head(documents)), Tail(documents))

\* What the memory can be after the calls for these documents, one after the
\* other in some order, on an empty index.
SerialOutcomes(documents) ==
    { LET mem == RunInTurn([document_store     |-> EmptyMap,
                            inverted_index     |-> EmptyMap,
                            term_document_freq |-> EmptyMap,
                            total_documents    |-> 0], order)
      IN MemoryView(mem.document_store, mem.inverted_index,
                    mem.term_document_freq, mem.total_documents)
      : order \in Orders(documents) }

\* The documents of the index_document calls that have begun.
BegunDocuments == { threads[t].document : t \in { u \in IndexThreads : threads[u].pc # "idle" } }

\* No call is in progress.
Quiescent == \A t \in DOMAIN threads : threads[t].pc \in {"idle", "done"}

\* A search reads the memory with no begun index_document call partly applied.
SearchReadsWholeIngestions ==
    \A t \in SearchThreads :
        (threads[t].pc = "idle" /\ threads'[t].pc # "idle") =>
            CurrentMemory \in UNION { SerialOutcomes(done) : done \in SUBSET BegunDocuments }

\* Once the calls have ended, the phrase cache holds under each key what a phrase
\* search computes from the memory.
NoStaleResultStored ==
    Quiescent =>
        \A key \in DOMAIN phrase_cache :
            phrase_cache[key] = phrase_search(EmptyMap, key[1], key[2], hash_order).results

\* C11: a search that runs while an index_document call does reads the memory
\* either as it was before the call or as it is after it, and does not leave in
\* the phrase cache, after the call has flushed it, a result computed before.
C11_SearchIsolatedFromIngestion ==
    [][SearchReadsWholeIngestions]_vars /\ []NoStaleResultStored

\* C12: two index_document calls for different new ids that run side by side end
\* with the memory of one run after the other: each document stored and posted,
\* total_documents 2, each term's frequency the number of the two documents that
\* hold it.
C12_ConcurrentIngestsSerializable ==
    (\A t \in IndexThreads : threads[t].pc = "done") =>
        CurrentMemory \in SerialOutcomes(BegunDocuments)

\* C21: in every state reached by index_document calls, returned or ended by a
\* failed write, and searches, each entry of the phrase cache is the list a phrase
\* search for its key computes from the document store and the index as they are.
C21_PhraseCacheTransparent ==
    \A key \in DOMAIN phrase_cache :
        phrase_cache[key] = phrase_search(EmptyMap, key[1], key[2], hash_order).results

\* The fields of a result of the core search.
ResultFields == {"id", "title", "data", "score"}

\* C22: after any sequence of search requests, every result the core search
\* returns, for any query, carries id, title, data and score, and so does every
\* result held in the phrase cache.
C22_ResultsKeepScore ==
    /\ \A key \in DOMAIN phrase_cache :
          \A i \in 1..Len(phrase_cache[key]) : DOMAIN phrase_cache[key][i] = ResultFields
    /\ \A query \in Queries, field \in Fields, use_phrase_query \in BOOLEAN :
          LET results == search(phrase_cache, query, field, use_phrase_query,
                                hash_order).results
          IN \A i \in 1..Len(results) : DOMAIN results[i] = ResultFields

\* The doc ids that have a posting in index.
PostedIds(index) ==
    UNION { { index[term][i].id : i \in 1..Len(index[term]) } : term \in DOMAIN index }

\* math.log(total / freq) of _calculate_idf on the loaded values is not negative.
IdfNotNegative(loaded, term) ==
    \/ loaded.total_documents = 0
    \/ LogRatio(loaded.total_documents, loaded.term_document_freq[term]) >= 0

\* C23: when the process has died in index_document, at or between its writes,
\* what a restart loads from the files has a record in the document store for
\* every doc id with a posting, and no document frequency above total_documents,
\* so no negative idf.
C23_LoadedStateSoundAfterCrash ==
    last.op = "crash" =>
        LET loaded == load_index(storage)
        IN /\ PostedIds(loaded.inverted_index) \subseteq DOMAIN loaded.document_store
           /\ \A term \in DOMAIN loaded.term_document_freq :
                 /\ loaded.term_document_freq[term] <= loaded.total_documents
                 /\ IdfNotNegative(loaded, term)

====
